---- MODULE Spec2Model ----
(***************************************************************************)
(* Model of ralphy's parallel execution engine: the batch scheduler        *)
(* runParallel, the per-agent runtime runAgentInWorktree, the state        *)
(* registry (updateState / updateSummary) and the merge pipeline           *)
(* mergeCompletedBranches.                                                 *)
(*                                                                         *)
(* Tasks are identified by 1..NumTasks, in source order.  An agent's       *)
(* worktree directory and branch name are derived from its agent number,   *)
(* so both are modelled by that number; 0 stands for the empty string.     *)
(* Wall-clock timestamps (lastUpdate) are left out.                        *)
(*                                                                         *)
(* Further specifications exercise one part each: ClassifierSpec the       *)
(* output classifier detectStepFromOutput, RegistrySpec the persistence    *)
(* of the registry (saveState), TmuxSpec agents that run in tmux sessions  *)
(* (execTmuxCommand, the session command, the signal handlers of main),    *)
(* StreamSpec the output file of a session and the lines its polling loop  *)
(* hands to onProgress.                                                    *)
(***************************************************************************)
EXTENDS Integers, Sequences, FiniteSets, TLC

\* ---- bounds -------------------------------------------------------------
NumTasks == 3
MaxPar == 2
MaxRetriesBound == 1
MaxIterOption == 1
MaxProgress == 1

Tasks == 1..NumTasks
\* the batch counter is followed up to IterCap: a run that launches agents
\* needs at most NumTasks batches and the iteration limit is below IterCap,
\* so no branch of the code tells a larger count from IterCap
IterCap == NumTasks + 2

\* "iteration++"
NextIteration(i) == IF i < IterCap THEN i + 1 ELSE i

StepLabels == {"Reading code", "Implementing"}
StartingBranch == "start"
BaseBranchOptions == {"", "dev"}

VARIABLES
    cfg,                \* the options of runParallel
    group,              \* parallel_group of every task of the source
    remaining,          \* the tasks the source reports as not completed
    pc,                 \* position of runParallel
    iteration,
    globalAgentNum,
    failedTaskIds,
    completedBranches,
    batch,              \* the tasks of the batch last selected
    slots,              \* the promises of the batch, one agent runtime each
    finished,           \* slot indices in the order the agents returned
    resIdx,             \* number of results of the batch already processed
    result,             \* ExecutionResult counters
    launched,           \* log of the runAgentInWorktree calls
    cleaned,            \* worktrees handed to cleanupAgentWorktree
    agents,             \* currentState.agents
    summary,            \* currentState.summary
    merged,
    failed,
    mergeLog,           \* outcome of every mergeAgentBranch call, in order
    deleted,            \* branches handed to deleteLocalBranch(force)
    mergeInvoked,
    currentBranch,
    restored,           \* returnToBaseBranch was called
    mergeOpen,          \* a merge is in progress in the working directory
    line,               \* the output line given to detectStepFromOutput
    detected,           \* the labels detectStepFromOutput returned for it
    stateFile,          \* the content of the state file
    lastSave,           \* how the last saveState ended
    regOps,             \* number of registry mutations made directly
    rt,                 \* per agent: position of runAgentInWorktree (tmux mode)
    drv,                \* per agent: the execTmuxCommand call
    sess,               \* per session name: the tmux session and its script
    exitFile,           \* per session name: content of the exit file
    proc,               \* the orchestrator process and its signal handlers
    killLog,            \* session names a kill-session was issued for
    outFile,            \* the output file of a session: the bytes tee has written
    outExit,            \* whether the exit file of that session holds its status
    lastReadOffset,     \* execTmuxCommand: the highest offset read
    delivered,          \* the lines handed to onProgress, in order
    strPc               \* position of the polling tick

sourceVars == <<group, remaining>>
schedVars == <<pc, iteration, globalAgentNum, failedTaskIds, completedBranches,
               batch, resIdx, result, launched, cleaned>>
agentVars == <<slots, finished>>
regVars == <<agents, summary>>
mergeVars == <<merged, failed, mergeLog, deleted, mergeInvoked, currentBranch,
               restored, mergeOpen>>
classVars == <<line, detected>>
fileVars == <<stateFile, lastSave, regOps>>
tmuxVars == <<rt, drv, sess, exitFile, proc, killLog>>
streamVars == <<outFile, outExit, lastReadOffset, delivered, strPc>>
extVars == <<classVars, fileVars, tmuxVars, streamVars>>
vars == <<cfg, sourceVars, schedVars, agentVars, regVars, mergeVars, extVars>>

\* ---- helpers ------------------------------------------------------------
RECURSIVE SortedSeq(_)
SortedSeq(S) ==
    IF S = {} THEN <<>>
    ELSE LET m == CHOOSE x \in S : \A y \in S : x <= y
         IN <<m>> \o SortedSeq(S \ {m})

Range(s) == {s[i] : i \in 1..Len(s)}

Min(a, b) == IF a <= b THEN a ELSE b

\* ---- task source (contract of spec section 6) -----------------------------
getAllTasks(rem) == SortedSeq(rem)

\* 0 stands for null
getNextTask(rem) == IF rem = {} THEN 0 ELSE CHOOSE x \in rem : \A y \in rem : x <= y

getParallelGroup(g, t) == g[t]

getTasksInGroup(rem, g, n) == SortedSeq({t \in rem : g[t] = n})

countRemaining(rem) == Cardinality(rem)

markComplete(rem, t) == rem \ {t}

\* ---- state registry -------------------------------------------------------
DefaultAgent(id) ==
    [id |-> id, task |-> 0, status |-> "pending", step |-> "Initializing",
     tmuxSession |-> 0, worktreeDir |-> 0, branchName |-> 0, error |-> FALSE]

updateState(ag, id, updates) ==
    LET base == IF id \in DOMAIN ag THEN ag[id] ELSE DefaultAgent(id)
    IN [x \in (DOMAIN ag) \cup {id} |->
            IF x = id THEN updates @@ base ELSE ag[x]]

updateSummary(s, updates) == updates @@ s

TerminalStatus == {"completed", "failed"}

\* ---- construction ---------------------------------------------------------
Configs ==
    [yaml : BOOLEAN, dryRun : BOOLEAN, skipMerge : BOOLEAN, tmux : BOOLEAN,
     maxParallel : 1..MaxPar, maxIterations : 0..MaxIterOption,
     maxRetries : 0..MaxRetriesBound, baseBranch : BaseBranchOptions]

\* the state of runParallel and of the registry before the first iteration
RunInit ==
    /\ group \in [Tasks -> 0..1]
    /\ (~cfg.yaml => group = [t \in Tasks |-> 0])
    /\ remaining = Tasks
    /\ pc = "loop"
    /\ iteration = 0
    /\ globalAgentNum = 0
    /\ failedTaskIds = {}
    /\ completedBranches = <<>>
    /\ batch = <<>>
    /\ slots = <<>>
    /\ finished = <<>>
    /\ resIdx = 0
    /\ result = [tasksCompleted |-> 0, tasksFailed |-> 0]
    /\ launched = <<>>
    /\ cleaned = {}
    /\ agents = <<>>
    /\ summary = [total |-> 0, completed |-> 0, failed |-> 0, inProgress |-> 0]
    /\ merged = <<>>
    /\ failed = <<>>
    /\ mergeLog = <<>>
    /\ deleted = {}
    /\ mergeInvoked = FALSE
    /\ currentBranch = StartingBranch
    /\ restored = FALSE
    /\ mergeOpen = FALSE

\* no output line is being classified
ClassIdle ==
    /\ line = [kind |-> "none"]
    /\ detected = {}

\* the state file has not been written
MissingFile == [exists |-> FALSE, text |-> <<>>]

FileIdle ==
    /\ stateFile = MissingFile
    /\ lastSave = "none"
    /\ regOps = 0

\* no agent runs in a tmux session and no signal has arrived
TmuxIdle ==
    /\ rt = <<>>
    /\ drv = <<>>
    /\ sess = <<>>
    /\ exitFile = <<>>
    /\ proc = [st |-> "running", sigs |-> {}, exitStatus |-> -1]
    /\ killLog = {}

\* no output file is being polled
StreamIdle ==
    /\ outFile = <<>>
    /\ outExit = FALSE
    /\ lastReadOffset = 0
    /\ delivered = <<>>
    /\ strPc = "idle"

Init ==
    /\ cfg \in Configs
    /\ RunInit
    /\ ClassIdle
    /\ FileIdle
    /\ TmuxIdle
    /\ StreamIdle

originalBaseBranch == IF cfg.baseBranch # "" THEN cfg.baseBranch ELSE StartingBranch

\* ---- runParallel: batch selection -----------------------------------------
IterationLimitReached(c, it) == c.maxIterations > 0 /\ it >= c.maxIterations

SelectAllTasks(c, g, rem) ==
    IF c.yaml
    THEN LET nextTask == getNextTask(rem)
         IN IF nextTask = 0 THEN <<>>
            ELSE IF getParallelGroup(g, nextTask) > 0
                 THEN getTasksInGroup(rem, g, getParallelGroup(g, nextTask))
                 ELSE <<nextTask>>
    ELSE getAllTasks(rem)

\* faulty variant: the failed tasks are not filtered out
FilterFailed_NoFilter(allTasks, failedIds) == allTasks

FilterFailed(allTasks, failedIds) ==
    LET NotFailed(t) == t \notin failedIds IN SelectSeq(allTasks, NotFailed)

\* faulty variant: the total is published again in every iteration
SetsTotal_EveryIteration(it) == TRUE

SetsTotal(it) == it = 0

LimitBatch(tasks, maxParallel) == SubSeq(tasks, 1, Min(Len(tasks), maxParallel))

SelectBatch ==
    /\ pc = "loop"
    /\ LET allTasks == SelectAllTasks(cfg, group, remaining)
           tasks == FilterFailed(allTasks, failedTaskIds)
           newBatch == LimitBatch(tasks, cfg.maxParallel)
           withTotal == IF SetsTotal(iteration)
                        THEN updateSummary(summary, [total |-> countRemaining(remaining)])
                        ELSE summary
       IN IF IterationLimitReached(cfg, iteration) \/ Len(tasks) = 0
          THEN /\ pc' = "exit"
               /\ UNCHANGED <<iteration, batch, summary>>
          ELSE /\ batch' = newBatch
               /\ iteration' = NextIteration(iteration)
               /\ summary' = updateSummary(withTotal, [inProgress |-> Len(newBatch)])
               /\ pc' = IF cfg.dryRun THEN "skip" ELSE "launch"
    /\ UNCHANGED <<extVars, cfg, sourceVars, globalAgentNum, failedTaskIds, completedBranches,
                   resIdx, result, launched, cleaned, agentVars, agents, mergeVars>>

\* "if (dryRun) { logInfo(...); continue; }": the batch is not run and the
\* loop starts over
SkipBatch ==
    /\ pc = "skip"
    /\ pc' = "loop"
    /\ UNCHANGED <<extVars, cfg, sourceVars, iteration, globalAgentNum, failedTaskIds,
                   completedBranches, batch, resIdx, result, launched, cleaned,
                   agentVars, regVars, mergeVars>>

\* ---- runParallel: fan-out ---------------------------------------------------
\* faulty variant: the agent counter restarts with every batch
LaunchNums_PerBatch(g, n) == [i \in 1..n |-> i]

LaunchNums(g, n) == [i \in 1..n |-> g + i]

RECURSIVE RegisterAll(_, _, _)
RegisterAll(ag, sl, i) ==
    IF i > Len(sl) THEN ag
    ELSE RegisterAll(
            updateState(ag, sl[i].num,
                [task |-> sl[i].task, status |-> "pending", step |-> "Creating worktree"]),
            sl, i + 1)

\* the base branch argument of runAgentInWorktree and createAgentWorktree
WorktreeBaseArg(c) == c.baseBranch

LaunchAgents ==
    /\ pc = "launch"
    /\ LET nums == LaunchNums(globalAgentNum, Len(batch))
           newSlots == [i \in 1..Len(batch) |->
                          [num |-> nums[i], task |-> batch[i], pc |-> "create",
                           worktreeDir |-> 0, branchName |-> 0, result |-> "none",
                           error |-> FALSE, attempt |-> 0, progress |-> 0,
                           forkedFrom |-> WorktreeBaseArg(cfg)]]
       IN /\ slots' = newSlots
          /\ globalAgentNum' = nums[Len(batch)]
          /\ launched' = launched \o [i \in 1..Len(batch) |->
                                        [num |-> nums[i], task |-> batch[i]]]
          /\ agents' = RegisterAll(agents, newSlots, 1)
    /\ finished' = <<>>
    /\ resIdx' = 0
    /\ pc' = "await"
    /\ UNCHANGED <<extVars, cfg, sourceVars, iteration, failedTaskIds, completedBranches,
                   batch, result, cleaned, summary, mergeVars>>

\* ---- runAgentInWorktree -----------------------------------------------------
AgentUnchanged ==
    UNCHANGED <<extVars, cfg, sourceVars, schedVars, summary, mergeVars>>

\* the locals of the retry loop end with the call
Returned(i, s) ==
    /\ slots' = [slots EXCEPT ![i] =
                    [s EXCEPT !.pc = "returned", !.attempt = 0, !.progress = 0]]
    /\ finished' = Append(finished, i)

\* faulty variant: the catch block returns without recording the failure
CatchError_NoUpdate(i, s, ag) ==
    /\ agents' = ag
    /\ Returned(i, [s EXCEPT !.result = "none", !.error = TRUE])

\* the catch block of runAgentInWorktree
CatchError(i, s, ag) ==
    /\ agents' = updateState(ag, s.num,
                    [status |-> "failed", step |-> "Error", error |-> TRUE])
    /\ Returned(i, [s EXCEPT !.result = "none", !.error = TRUE])

RunningUpdate(c, s) ==
    IF c.tmux
    THEN [tmuxSession |-> s.num, status |-> "running", step |-> "Executing (tmux)"]
    ELSE [status |-> "running", step |-> "Executing"]

\* createAgentWorktree returns or throws; the copy of the PRD and the mkdir of
\* .ralphy may throw afterwards
AgentCreateWorktree(i) ==
    /\ pc = "await"
    /\ i \in DOMAIN slots
    /\ slots[i].pc = "create"
    /\ LET s == slots[i]
           withTree == [s EXCEPT !.worktreeDir = s.num, !.branchName = s.num]
           prepared == updateState(agents, s.num,
                          [worktreeDir |-> s.num, branchName |-> s.num,
                           step |-> "Preparing worktree"])
       IN \E outcome \in {"ok", "createThrows", "prepareThrows"} :
            CASE outcome = "createThrows" -> CatchError(i, s, agents)
              [] outcome = "prepareThrows" -> CatchError(i, withTree, prepared)
              [] OTHER ->
                    /\ agents' = updateState(prepared, s.num, RunningUpdate(cfg, s))
                    /\ slots' = [slots EXCEPT ![i] = [withTree EXCEPT !.pc = "exec"]]
                    /\ UNCHANGED finished
    /\ AgentUnchanged

\* faulty variant: output is still streamed after execute has resolved
EngineRunning_Late(s) == s.pc \in {"exec", "returned"}

\* onProgress is called by the engine only while execute is pending
EngineRunning(s) == s.pc = "exec"

AgentProgress(i) ==
    /\ pc = "await"
    /\ i \in DOMAIN slots
    /\ EngineRunning(slots[i])
    /\ slots[i].progress < MaxProgress
    /\ \E step \in StepLabels :
          agents' = updateState(agents, slots[i].num, [step |-> step])
    /\ slots' = [slots EXCEPT ![i].progress = @ + 1]
    /\ UNCHANGED finished
    /\ AgentUnchanged

\* withRetry: another attempt is made while retries are left
RetryAllowed(attempt, maxRetries) == attempt < maxRetries

AgentExecuteReturns(i) ==
    /\ pc = "await"
    /\ i \in DOMAIN slots
    /\ slots[i].pc = "exec"
    /\ LET s == slots[i]
       IN \E res \in {"success", "failure", "retryable"} :
            CASE res = "success" ->
                    /\ agents' = updateState(agents, s.num,
                                    [status |-> "completed", step |-> "Finished"])
                    /\ Returned(i, [s EXCEPT !.result = "success"])
              [] res = "failure" ->
                    /\ agents' = updateState(agents, s.num,
                                    [status |-> "failed", step |-> "Failed", error |-> TRUE])
                    /\ Returned(i, [s EXCEPT !.result = "failure"])
              [] OTHER ->
                    IF RetryAllowed(s.attempt, cfg.maxRetries)
                    THEN /\ slots' = [slots EXCEPT ![i] =
                                        [s EXCEPT !.pc = "sleep", !.attempt = @ + 1]]
                         /\ UNCHANGED <<agents, finished>>
                    ELSE CatchError(i, s, agents)
    /\ AgentUnchanged

AgentRetry(i) ==
    /\ pc = "await"
    /\ i \in DOMAIN slots
    /\ slots[i].pc = "sleep"
    /\ slots' = [slots EXCEPT ![i].pc = "exec"]
    /\ UNCHANGED <<agents, finished>>
    /\ AgentUnchanged

\* ---- runParallel: join and result processing --------------------------------
\* faulty variant: the join resolves with the first agent that returns
AllSettled_Any(sl) == \E i \in DOMAIN sl : sl[i].pc = "returned"

AllSettled(sl) == \A i \in DOMAIN sl : sl[i].pc = "returned"

PromiseAllResolves ==
    /\ pc = "await"
    /\ AllSettled(slots)
    /\ pc' = "process"
    /\ UNCHANGED <<extVars, cfg, sourceVars, iteration, globalAgentNum, failedTaskIds,
                   completedBranches, batch, resIdx, result, launched, cleaned,
                   agentVars, regVars, mergeVars>>

\* faulty variant: the results are taken in the order the agents finished
ResultsOrder_Finish(sl, fin) == fin

\* Promise.all yields the results in the order of the promises
ResultsOrder(sl, fin) == [i \in 1..Len(sl) |-> i]

AgentFailed(s) == s.error \/ s.result # "success"

\* faulty variant: with tmux every worktree is kept
PreserveWorktree_Always(c, s) == c.tmux

PreserveWorktree(c, s) == c.tmux /\ AgentFailed(s)

ProcessResult ==
    /\ pc = "process"
    /\ resIdx < Len(slots)
    /\ LET s == slots[ResultsOrder(slots, finished)[resIdx + 1]]
       IN /\ IF AgentFailed(s)
             THEN /\ result' = [result EXCEPT !.tasksFailed = @ + 1]
                  /\ failedTaskIds' = failedTaskIds \cup {s.task}
                  /\ summary' = updateSummary(summary, [failed |-> result.tasksFailed + 1])
                  /\ UNCHANGED <<remaining, completedBranches>>
             ELSE /\ remaining' = markComplete(remaining, s.task)
                  /\ result' = [result EXCEPT !.tasksCompleted = @ + 1]
                  /\ summary' = updateSummary(summary,
                                    [completed |-> result.tasksCompleted + 1])
                  /\ completedBranches' = IF s.branchName # 0
                                          THEN Append(completedBranches, s.branchName)
                                          ELSE completedBranches
                  /\ UNCHANGED failedTaskIds
          /\ cleaned' = IF s.worktreeDir # 0 /\ ~PreserveWorktree(cfg, s)
                        THEN cleaned \cup {s.worktreeDir}
                        ELSE cleaned
    /\ IF resIdx + 1 = Len(slots)
       THEN \* end of the loop body: batch, promises and results go out of scope
            /\ pc' = "loop"
            /\ resIdx' = 0
            /\ batch' = <<>>
            /\ slots' = <<>>
            /\ finished' = <<>>
       ELSE /\ pc' = "process"
            /\ resIdx' = resIdx + 1
            /\ UNCHANGED <<batch, agentVars>>
    /\ UNCHANGED <<extVars, cfg, group, iteration, globalAgentNum, launched, agents, mergeVars>>

\* ---- runParallel: merge phase -------------------------------------------------
\* faulty variant: skipMerge is not consulted
ShouldMerge_IgnoreSkip(c, branches) == ~c.dryRun /\ Len(branches) > 0

ShouldMerge(c, branches) == ~c.skipMerge /\ ~c.dryRun /\ Len(branches) > 0

LoopExit ==
    /\ pc = "exit"
    /\ IF ShouldMerge(cfg, completedBranches)
       THEN pc' = "merge" /\ mergeInvoked' = TRUE
       ELSE pc' = "done" /\ UNCHANGED mergeInvoked
    /\ UNCHANGED <<extVars, cfg, sourceVars, iteration, globalAgentNum, failedTaskIds,
                   completedBranches, batch, resIdx, result, launched, cleaned,
                   agentVars, regVars, merged, failed, mergeLog, mergeOpen, deleted,
                   currentBranch, restored>>

\* what mergeAgentBranch and resolveConflictsWithAI can report for one branch:
\*   clean            success
\*   resolved         hasConflicts with conflictedFiles, resolution succeeded
\*   unresolved       hasConflicts with conflictedFiles, resolution failed
\*   conflictNoFiles  hasConflicts without conflictedFiles
\*   error            any other failure
MergeOutcomes == {"clean", "resolved", "unresolved", "conflictNoFiles", "error"}

CountsAsMerged(outcome) == outcome \in {"clean", "resolved"}

\* mergeAgentBranch reported conflicts: git has left the merge in progress
ConflictReported(outcome) == outcome \in {"resolved", "unresolved", "conflictNoFiles"}

\* the conflicts were resolved and committed by resolveConflictsWithAI
ResolvedByAI(outcome) == outcome = "resolved"

\* the passes of the loop that call abortMerge
AbortsMerge(outcome) == outcome = "unresolved"

\* whether a merge is in progress after a pass of the loop
MergeLeftOpen(open, outcome) ==
    IF ConflictReported(outcome)
    THEN ~(ResolvedByAI(outcome) \/ AbortsMerge(outcome))
    ELSE IF outcome = "clean" THEN FALSE ELSE open

\* the branch mergeAgentBranch leaves checked out: it merges into the target
mergeAgentBranchCheckout(target) == target

\* one pass of the for loop of mergeCompletedBranches
MergeBranch ==
    /\ pc = "merge"
    /\ Len(mergeLog) < Len(completedBranches)
    /\ LET branch == completedBranches[Len(mergeLog) + 1]
       IN \E outcome \in MergeOutcomes :
            /\ mergeLog' = Append(mergeLog, [branch |-> branch, outcome |-> outcome])
            /\ IF CountsAsMerged(outcome)
               THEN merged' = Append(merged, branch) /\ UNCHANGED failed
               ELSE failed' = Append(failed, branch) /\ UNCHANGED merged
    /\ mergeOpen' = MergeLeftOpen(mergeOpen, mergeLog'[Len(mergeLog')].outcome)
    /\ currentBranch' = mergeAgentBranchCheckout(originalBaseBranch)
    /\ UNCHANGED <<extVars, cfg, sourceVars, schedVars, agentVars, regVars, deleted,
                   mergeInvoked, restored>>

\* faulty variant: every handled branch is deleted
BranchesToDelete_All(m, f) == m \o f

BranchesToDelete(m, f) == m

DeleteMerged ==
    /\ pc = "merge"
    /\ Len(mergeLog) = Len(completedBranches)
    /\ deleted' = deleted \cup Range(BranchesToDelete(merged, failed))
    /\ pc' = "restore"
    /\ UNCHANGED <<extVars, cfg, sourceVars, iteration, globalAgentNum, failedTaskIds,
                   completedBranches, batch, resIdx, result, launched, cleaned,
                   agentVars, regVars, merged, failed, mergeLog, mergeOpen, mergeInvoked,
                   currentBranch, restored>>

\* faulty variant: the current branch is compared with the merge target
NeedsRestore_Target(cur, start) == cur # originalBaseBranch

NeedsRestore(cur, start) == cur # start

RestoreStartingBranch ==
    /\ pc = "restore"
    /\ IF NeedsRestore(currentBranch, StartingBranch)
       THEN currentBranch' = StartingBranch /\ restored' = TRUE
       ELSE UNCHANGED <<currentBranch, restored>>
    /\ pc' = "done"
    /\ UNCHANGED <<extVars, cfg, sourceVars, iteration, globalAgentNum, failedTaskIds,
                   completedBranches, batch, resIdx, result, launched, cleaned,
                   agentVars, regVars, merged, failed, mergeLog, mergeOpen, deleted,
                   mergeInvoked>>

\* ---- specification ------------------------------------------------------------
Next ==
    \/ SelectBatch
    \/ SkipBatch
    \/ LaunchAgents
    \/ \E i \in 1..(MaxPar + 1) : AgentCreateWorktree(i)
    \/ \E i \in 1..(MaxPar + 1) : AgentProgress(i)
    \/ \E i \in 1..(MaxPar + 1) : AgentExecuteReturns(i)
    \/ \E i \in 1..(MaxPar + 1) : AgentRetry(i)
    \/ PromiseAllResolves
    \/ ProcessResult
    \/ LoopExit
    \/ MergeBranch
    \/ DeleteMerged
    \/ RestoreStartingBranch

Spec == Init /\ [][Next]_vars

\* the event loop runs every continuation that is ready, and every agent run,
\* merge and git call returns: a step that is possible is taken
FairSpec == Spec /\ WF_vars(Next)

\* ---- properties ---------------------------------------------------------------
PostLoop == {"exit", "merge", "restore", "done"}

TaskOfAgent(n) == (CHOOSE k \in 1..Len(launched) : launched[k].num = n)

TaskOfBranch(b) == launched[TaskOfAgent(b)].task

\* C1: once a task identifier is in failedTaskIds, no batch selected afterwards
\* contains it and no agent is launched for it again.
C1_FailedNeverRelaunched ==
    [][/\ (batch' # batch =>
              \A k \in 1..Len(batch') : batch'[k] \notin failedTaskIds)
       /\ \A k \in (Len(launched) + 1)..Len(launched') :
              launched'[k].task \notin failedTaskIds]_vars

\* a batch has been launched after a task failed, while the source still offers
\* the failed task
C1_Witness ==
    /\ pc = "await"
    /\ iteration >= 2
    /\ failedTaskIds # {}
    /\ failedTaskIds \subseteq remaining
    /\ \A i \in DOMAIN slots : slots[i].task \notin failedTaskIds

\* C2: the agent numbers handed out over all batches of a run are strictly
\* increasing in launch order, so no two agents share a number and every
\* launch has a registry record of its own.
C2_AgentNumsIncreasing ==
    /\ \A i, j \in 1..Len(launched) : i < j => launched[i].num < launched[j].num
    /\ Cardinality(DOMAIN agents) = Len(launched)
    /\ \A k \in 1..Len(launched) : launched[k].num <= globalAgentNum

C2_Witness ==
    /\ iteration >= 2
    /\ Len(launched) >= 3
    /\ Len(slots) >= 2

\* C3: once summary.total is non-zero, summary.completed + summary.failed never
\* exceeds it.
C3_CompletedPlusFailedWithinTotal ==
    summary.total # 0 => summary.completed + summary.failed <= summary.total

C3_Witness ==
    /\ summary.total # 0
    /\ summary.completed > 0
    /\ summary.failed > 0
    /\ summary.completed + summary.failed = summary.total

\* C4: no step records a result (markComplete, the completed/failed counters,
\* failedTaskIds, completedBranches, workspace cleanup) while an agent of the
\* batch has not returned yet.
C4_BarrierBeforeResults ==
    [][(\/ remaining' # remaining
        \/ failedTaskIds' # failedTaskIds
        \/ summary'.completed # summary.completed
        \/ summary'.failed # summary.failed
        \/ result' # result
        \/ completedBranches' # completedBranches
        \/ cleaned' # cleaned)
       => \A i \in DOMAIN slots : slots[i].pc = "returned"]_vars

\* the second agent of a batch returned first, and a result has been processed
C4_Witness ==
    /\ pc = "process"
    /\ resIdx = 1
    /\ Len(slots) >= 2
    /\ finished[1] = 2

\* C5: completedBranches lists the branches of the successful agents in launch
\* order, whatever the order in which the agents finished; with maxParallel = 1
\* the tasks of these branches follow the source order.
C5_CompletedBranchesInLaunchOrder ==
    /\ \A i, j \in 1..Len(completedBranches) :
          i < j => completedBranches[i] < completedBranches[j]
    /\ (pc \in {"loop", "launch"} \cup PostLoop =>
          Range(completedBranches) =
              {a \in DOMAIN agents : agents[a].status = "completed"})
    /\ (cfg.maxParallel = 1 =>
          \A i, j \in 1..Len(completedBranches) :
              i < j => TaskOfBranch(completedBranches[i])
                          < TaskOfBranch(completedBranches[j]))

\* both agents of a later batch succeeded, the second one first, and the
\* branch of the first one has been recorded
C5_Witness ==
    /\ pc = "process"
    /\ resIdx = 1
    /\ Len(slots) = 2
    /\ finished = <<2, 1>>
    /\ \A i \in DOMAIN slots : slots[i].result = "success"
    /\ Len(completedBranches) >= 2
    /\ completedBranches[Len(completedBranches)] = slots[1].branchName

\* C6: a failing agent fails its own task only: the failed set holds exactly
\* the tasks of the failed agents, and a run without iteration limit still
\* launches an agent for every task of the source.
C6_FailureIsolated ==
    /\ (pc \in {"loop"} \cup PostLoop =>
          failedTaskIds =
              {agents[a].task : a \in {x \in DOMAIN agents : agents[x].status = "failed"}})
    /\ (pc = "done" /\ ~cfg.dryRun /\ cfg.maxIterations = 0 =>
          \A t \in Tasks : \E k \in 1..Len(launched) : launched[k].task = t)

\* C7: with maxIterations = 0 the batch loop is left only when every task the
\* source still holds is in failedTaskIds.
C7_ExitOnlyWhenDrained ==
    (pc \in PostLoop /\ cfg.maxIterations = 0) => remaining \subseteq failedTaskIds

\* the part of C7 that the code keeps: the all-remaining selection
C7_FlatSourceDrained ==
    (pc \in PostLoop /\ cfg.maxIterations = 0 /\ ~cfg.yaml)
        => remaining \subseteq failedTaskIds

\* C8: a registry record whose status is completed or failed keeps its status
\* and its step in every later step.
C8_TerminalRecordsFrozen ==
    [][\A a \in DOMAIN agents :
          agents[a].status \in TerminalStatus =>
              /\ agents'[a].status = agents[a].status
              /\ agents'[a].step = agents[a].step]_vars

\* agent 1 is terminal while agent 2, launched later, has retried and has
\* written a step label from its output
C8_Witness ==
    /\ cfg.maxParallel = 1
    /\ iteration = 2
    /\ pc = "await"
    /\ 1 \in DOMAIN agents
    /\ agents[1].status \in TerminalStatus
    /\ slots[1].num = 2
    /\ slots[1].attempt > 0
    /\ slots[1].progress > 0
    /\ agents[2].step \in StepLabels

\* C9: the merge pipeline takes the branches in completedBranches order, puts
\* each into exactly one of merged and failed (clean or resolved: merged;
\* anything else: failed), deletes nothing while it merges, and afterwards has
\* requested the deletion of exactly the merged branches.
C9_MergePartitionAndDeletion ==
    /\ Len(mergeLog) <= Len(completedBranches)
    /\ \A k \in 1..Len(mergeLog) : mergeLog[k].branch = completedBranches[k]
    /\ Range(merged) \cap Range(failed) = {}
    /\ Len(merged) + Len(failed) = Len(mergeLog)
    /\ \A k \in 1..Len(mergeLog) :
          /\ mergeLog[k].outcome \in {"clean", "resolved"}
                => mergeLog[k].branch \in Range(merged)
          /\ mergeLog[k].outcome \in {"unresolved", "conflictNoFiles", "error"}
                => mergeLog[k].branch \in Range(failed)
    /\ (pc = "merge" => deleted = {})
    /\ (pc \in {"restore", "done"} /\ mergeInvoked =>
          /\ Len(mergeLog) = Len(completedBranches)
          /\ deleted = Range(merged)
          /\ deleted \cap Range(failed) = {})

C9_Witness ==
    /\ pc = "done"
    /\ \E k \in 1..Len(mergeLog) : mergeLog[k].outcome = "resolved"
    /\ \E k \in 1..Len(mergeLog) : mergeLog[k].outcome = "unresolved"
    /\ Len(merged) >= 1
    /\ Len(failed) >= 1
    /\ deleted # {}

\* C10: the merge pipeline runs exactly when the loop is left with skipMerge
\* and dryRun false and completedBranches non-empty; otherwise nothing is
\* merged or deleted and the starting branch is not restored; a dry run
\* launches no agent.
C10_MergeExactlyWhenDue ==
    /\ (pc \notin {"merge", "restore", "done"} => ~mergeInvoked)
    /\ (pc \in {"merge", "restore", "done"} =>
          (mergeInvoked <=>
              (~cfg.skipMerge /\ ~cfg.dryRun /\ Len(completedBranches) > 0)))
    /\ (~mergeInvoked =>
          /\ mergeLog = <<>> /\ merged = <<>> /\ failed = <<>>
          /\ deleted = {}
          /\ ~restored
          /\ currentBranch = StartingBranch)
    /\ (cfg.dryRun => launched = <<>> /\ agents = <<>> /\ ~mergeInvoked)

\* the run ended with completed branches that skipMerge kept from being merged
C10_Witness ==
    /\ pc = "done"
    /\ cfg.skipMerge
    /\ Len(completedBranches) > 0
    /\ ~mergeInvoked

C10_WitnessDryRun ==
    /\ pc = "done"
    /\ cfg.dryRun
    /\ iteration > 0

\* C11: whenever the merge pipeline ran, the run ends on the starting branch,
\* also with an explicit base branch as merge target and with failed merges.
C11_EndsOnStartingBranch ==
    (pc = "done" /\ mergeInvoked) => currentBranch = StartingBranch

\* the merges went into an explicit base branch, one of them failed, and the
\* starting branch was restored
C11_Witness ==
    /\ pc = "done"
    /\ mergeInvoked
    /\ cfg.baseBranch # ""
    /\ cfg.baseBranch # StartingBranch
    /\ Len(failed) >= 1
    /\ Len(merged) >= 1
    /\ restored
    /\ currentBranch = StartingBranch

\* C12: the branch handed to workspace creation is the merge target, the
\* explicit baseBranch when given and the starting branch otherwise.
C12_ForkedFromMergeTarget ==
    \A i \in DOMAIN slots : slots[i].forkedFrom = originalBaseBranch

\* the part of C12 that the code keeps: an explicit baseBranch
C12_ExplicitBaseForked ==
    cfg.baseBranch # "" =>
        \A i \in DOMAIN slots : slots[i].forkedFrom = originalBaseBranch

\* C16: a processed agent's worktree is handed to cleanup unless tmux is set
\* and the agent failed; a completed agent's worktree always is; nothing is
\* handed over for an agent without worktree.
C16_CleanupPolicy ==
    /\ 0 \notin cleaned
    /\ \A w \in cleaned :
          /\ w \in DOMAIN agents
          /\ agents[w].worktreeDir = w
          /\ agents[w].status \in TerminalStatus
          /\ ~(cfg.tmux /\ agents[w].status = "failed")
    /\ (pc \in {"loop", "launch"} \cup PostLoop =>
          cleaned = {agents[a].worktreeDir :
                        a \in {x \in DOMAIN agents :
                                  /\ agents[x].worktreeDir # 0
                                  /\ ~(cfg.tmux /\ agents[x].status = "failed")}})

\* with tmux: a failed agent's worktree was kept, a completed agent's worktree
\* was cleaned, and an agent without worktree was processed
C16_Witness ==
    /\ pc = "loop"
    /\ cfg.tmux
    /\ \E a \in DOMAIN agents :
          agents[a].status = "failed" /\ agents[a].worktreeDir # 0 /\ a \notin cleaned
    /\ \E a \in DOMAIN agents :
          agents[a].status = "completed" /\ agents[a].worktreeDir \in cleaned
    /\ \E a \in DOMAIN agents :
          agents[a].status = "failed" /\ agents[a].worktreeDir = 0

\* C19: summary.inProgress is the size of the batch being executed and 0 when
\* no batch is executing, so completed + failed + inProgress stays within
\* total.
C19_InProgressIsCurrentBatch ==
    /\ (pc \in {"launch", "await", "process"} => summary.inProgress = Len(batch))
    /\ (pc \in PostLoop => summary.inProgress = 0)
    /\ (summary.total # 0 =>
          summary.completed + summary.failed + summary.inProgress <= summary.total)

\* the part of C19 that the code keeps: while the agents of a batch run
C19_InProgressWhileRunning ==
    pc \in {"launch", "await"} => summary.inProgress = Len(batch)

\* ---- output classifier: detectStepFromOutput ---------------------------------
\* A string is the sequence of its characters.  A JSON value is a string or one
\* of: absent (undefined), null, a falsy non-string (0, false), a truthy
\* non-string (a non-zero number, true, an array, an object).
Str(c) == [kind |-> "string", chars |-> c]
Absent == [kind |-> "absent", chars |-> <<>>]
JsonNull == [kind |-> "null", chars |-> <<>>]
FalsyValue == [kind |-> "falsy", chars |-> <<>>]
TruthyValue == [kind |-> "truthy", chars |-> <<>>]

UpperCase == <<"A", "B", "C", "D", "E", "F", "G", "H", "I", "J", "K", "L", "M",
               "N", "O", "P", "Q", "R", "S", "T", "U", "V", "W", "X", "Y", "Z">>
LowerCase == <<"a", "b", "c", "d", "e", "f", "g", "h", "i", "j", "k", "l", "m",
               "n", "o", "p", "q", "r", "s", "t", "u", "v", "w", "x", "y", "z">>

toLowerCase(str) ==
    [i \in 1..Len(str) |->
        IF \E k \in 1..26 : UpperCase[k] = str[i]
        THEN LowerCase[CHOOSE k \in 1..26 : UpperCase[k] = str[i]]
        ELSE str[i]]

includes(str, sub) ==
    \E i \in 0..(Len(str) - Len(sub)) : SubSeq(str, i + 1, i + Len(sub)) = sub

RECURSIVE trim(_)
trim(str) ==
    IF str # <<>> /\ Head(str) = " " THEN trim(Tail(str))
    ELSE IF str # <<>> /\ str[Len(str)] = " " THEN trim(SubSeq(str, 1, Len(str) - 1))
    ELSE str

startsWith(str, c) == str # <<>> /\ Head(str) = c

s_read == <<"r", "e", "a", "d">>
s_glob == <<"g", "l", "o", "b">>
s_grep == <<"g", "r", "e", "p">>
s_write == <<"w", "r", "i", "t", "e">>
s_edit == <<"e", "d", "i", "t">>
s_gitCommit == <<"g", "i", "t", " ", "c", "o", "m", "m", "i", "t">>
s_gitAdd == <<"g", "i", "t", " ", "a", "d", "d">>
s_lint == <<"l", "i", "n", "t">>
s_eslint == <<"e", "s", "l", "i", "n", "t">>
s_biome == <<"b", "i", "o", "m", "e">>
s_prettier == <<"p", "r", "e", "t", "t", "i", "e", "r">>
s_vitest == <<"v", "i", "t", "e", "s", "t">>
s_jest == <<"j", "e", "s", "t">>
s_bunTest == <<"b", "u", "n", " ", "t", "e", "s", "t">>
s_npmTest == <<"n", "p", "m", " ", "t", "e", "s", "t">>
s_pytest == <<"p", "y", "t", "e", "s", "t">>
s_goTest == <<"g", "o", " ", "t", "e", "s", "t">>
s_dotTest == <<".", "t", "e", "s", "t", ".">>
s_dotSpec == <<".", "s", "p", "e", "c", ".">>
s_tests == <<"_", "_", "t", "e", "s", "t", "s", "_", "_">>
s_testGo == <<"_", "t", "e", "s", "t", ".", "g", "o">>

NullLabel == "null"

\* v?.toLowerCase(): undefined for an absent or null value, a TypeError for
\* every other value that is not a string
OptionalLower(v) ==
    [throws |-> v.kind \in {"falsy", "truthy"},
     val |-> IF v.kind = "string" THEN toLowerCase(v.chars) ELSE <<>>]

\* a?.toLowerCase() || b?.toLowerCase() || ... || ""
RECURSIVE OrChainLower(_)
OrChainLower(vs) ==
    IF vs = <<>> THEN [throws |-> FALSE, val |-> <<>>]
    ELSE LET h == OptionalLower(Head(vs))
         IN IF h.throws \/ h.val # <<>> THEN h ELSE OrChainLower(Tail(vs))

Truthy(v) == v.kind = "truthy" \/ (v.kind = "string" /\ v.chars # <<>>)

\* (a || b || ... || "")
RECURSIVE FirstTruthy(_)
FirstTruthy(vs) ==
    IF vs = <<>> THEN Str(<<>>)
    ELSE IF Truthy(Head(vs)) THEN Head(vs) ELSE FirstTruthy(Tail(vs))

\* (...).toLowerCase(): a TypeError when the value is not a string
LowerOf(v) ==
    [throws |-> v.kind # "string",
     val |-> IF v.kind = "string" THEN toLowerCase(v.chars) ELSE <<>>]

isTestFile(filePath) ==
    LET lower == toLowerCase(filePath)
    IN \/ includes(lower, s_dotTest)
       \/ includes(lower, s_dotSpec)
       \/ includes(lower, s_tests)
       \/ includes(lower, s_testGo)

\* the rules of detectStepFromOutput, over the extracted fields
ClassifyFields(toolName, command, filePath, description) ==
    LET isReadOperation == toolName \in {s_read, s_glob, s_grep}
        isWriteOperation == toolName \in {s_write, s_edit}
    IN IF isReadOperation THEN "Reading code"
       ELSE IF includes(command, s_gitCommit) \/ includes(description, s_gitCommit)
       THEN "Committing"
       ELSE IF includes(command, s_gitAdd) \/ includes(description, s_gitAdd)
       THEN "Staging"
       ELSE IF \/ includes(command, s_lint)
               \/ includes(command, s_eslint)
               \/ includes(command, s_biome)
               \/ includes(command, s_prettier)
       THEN "Linting"
       ELSE IF \/ includes(command, s_vitest)
               \/ includes(command, s_jest)
               \/ includes(command, s_bunTest)
               \/ includes(command, s_npmTest)
               \/ includes(command, s_pytest)
               \/ includes(command, s_goTest)
       THEN "Testing"
       ELSE IF isWriteOperation /\ isTestFile(filePath) THEN "Writing tests"
       ELSE IF isWriteOperation THEN "Implementing"
       ELSE NullLabel

\* a line is its leading characters, whether JSON.parse accepts the trimmed
\* line, and the examined fields of the parsed object
detectStepFromOutput(l) ==
    IF ~startsWith(trim(l.prefix), "{") THEN NullLabel
    ELSE IF ~l.parses THEN NullLabel
    ELSE LET toolName == OrChainLower(<<l.tool, l.name, l.tool_name>>)
             command == OrChainLower(<<l.command>>)
             filePath == LowerOf(FirstTruthy(<<l.file_path, l.filePath, l.path>>))
             description == LowerOf(FirstTruthy(<<l.description>>))
         IN IF \/ toolName.throws
               \/ command.throws
               \/ filePath.throws
               \/ description.throws
            THEN NullLabel
            ELSE ClassifyFields(toolName.val, command.val, filePath.val,
                                description.val)

ToolValues ==
    {Absent, JsonNull, FalsyValue, Str(<<"R", "e", "a", "d">>),
     Str(<<"g", "l", "o", "b">>), Str(<<"W", "r", "i", "t", "e">>),
     Str(<<"B", "a", "s", "h">>), Str(<<>>)}

NameValues ==
    {Absent, Str(<<"G", "r", "e", "p">>), Str(<<"e", "d", "i", "t">>)}

ToolNameValues ==
    {Absent, Str(<<"E", "d", "i", "t">>)}

CommandValues ==
    {Absent, TruthyValue,
     Str(<<"g", "i", "t", " ", "c", "o", "m", "m", "i", "t">>),
     Str(<<"G", "I", "T", " ", "A", "D", "D", " ", ".">>),
     Str(<<"e", "s", "l", "i", "n", "t", " ", ".">>),
     Str(<<"b", "u", "n", " ", "t", "e", "s", "t">>), Str(<<"l", "s">>)}

FilePathValues ==
    {Absent, TruthyValue,
     Str(<<"a", ".", "t", "e", "s", "t", ".", "t", "s">>),
     Str(<<"a", ".", "t", "s">>)}

FilePathAltValues ==
    {Absent, Str(<<"A", ".", "S", "P", "E", "C", ".", "j", "s">>)}

PathValues ==
    {Absent, Str(<<"a", "_", "t", "e", "s", "t", ".", "g", "o">>)}

DescriptionValues ==
    {Absent, FalsyValue, TruthyValue,
     Str(<<"r", "u", "n", " ", "g", "i", "t", " ", "c", "o", "m", "m", "i", "t">>),
     Str(<<"g", "i", "t", " ", "a", "d", "d">>)}

PrefixValues == {<<"{">>, <<" ", "{">>, <<"x">>, <<" ">>}

ObjectLines ==
    [kind : {"line"}, prefix : {<<"{">>, <<" ", "{">>}, parses : {TRUE},
     tool : ToolValues, name : NameValues, tool_name : ToolNameValues,
     command : CommandValues, file_path : FilePathValues,
     filePath : FilePathAltValues, path : PathValues,
     description : DescriptionValues]

\* lines that are no JSON object: no "{" in front, or rejected by JSON.parse
OtherLines ==
    [kind : {"line"}, prefix : PrefixValues, parses : {FALSE},
     tool : {Absent}, name : {Absent}, tool_name : {Absent},
     command : {Absent}, file_path : {Absent}, filePath : {Absent},
     path : {Absent}, description : {Absent}]

Lines == ObjectLines \cup OtherLines

\* the configuration under which the parts outside runParallel are exercised
FixedConfig ==
    [yaml |-> FALSE, dryRun |-> FALSE, skipMerge |-> FALSE, tmux |-> TRUE,
     maxParallel |-> MaxPar, maxIterations |-> 0, maxRetries |-> 0,
     baseBranch |-> ""]

ClassifierInit ==
    /\ cfg = FixedConfig
    /\ RunInit
    /\ line \in Lines
    /\ detected = {}
    /\ FileIdle
    /\ TmuxIdle
    /\ StreamIdle

\* onProgress hands the line to detectStepFromOutput
Classify ==
    /\ line.kind = "line"
    /\ detected' = detected \cup {detectStepFromOutput(line)}
    /\ UNCHANGED <<line, fileVars, tmuxVars, streamVars, cfg, sourceVars, schedVars, agentVars,
                   regVars, mergeVars>>

ClassifierNext == Classify

ClassifierSpec == ClassifierInit /\ [][ClassifierNext]_vars

\* ---- the classification rules as section 4.2 of the specification lists them
\* the text of an examined field, case-insensitive; a field that holds no
\* string contributes no text
TextOf(v) == IF v.kind = "string" THEN toLowerCase(v.chars) ELSE <<>>

RECURSIVE FirstText(_)
FirstText(vs) ==
    IF vs = <<>> THEN <<>>
    ELSE IF TextOf(Head(vs)) # <<>> THEN TextOf(Head(vs)) ELSE FirstText(Tail(vs))

IsJsonObject(l) == startsWith(trim(l.prefix), "{") /\ l.parses

RuleLabels ==
    <<"Reading code", "Committing", "Staging", "Linting", "Testing",
      "Writing tests", "Implementing">>

RuleMatches(l, k) ==
    LET toolName == FirstText(<<l.tool, l.name, l.tool_name>>)
        command == TextOf(l.command)
        filePath == FirstText(<<l.file_path, l.filePath, l.path>>)
        description == TextOf(l.description)
        Contains(str, subs) == \E sub \in subs : includes(str, sub)
    IN CASE k = 1 -> toolName \in {s_read, s_glob, s_grep}
         [] k = 2 -> Contains(command, {s_gitCommit}) \/ Contains(description, {s_gitCommit})
         [] k = 3 -> Contains(command, {s_gitAdd}) \/ Contains(description, {s_gitAdd})
         [] k = 4 -> Contains(command, {s_lint, s_eslint, s_biome, s_prettier})
         [] k = 5 -> Contains(command, {s_vitest, s_jest, s_bunTest, s_npmTest,
                                        s_pytest, s_goTest})
         [] k = 6 -> /\ toolName \in {s_write, s_edit}
                     /\ Contains(filePath, {s_dotTest, s_dotSpec, s_tests, s_testGo})
         [] k = 7 -> toolName \in {s_write, s_edit}

ExpectedLabel(l) ==
    LET matching == {k \in 1..7 : RuleMatches(l, k)}
    IN IF ~IsJsonObject(l) \/ matching = {} THEN NullLabel
       ELSE RuleLabels[CHOOSE k \in matching : \A j \in matching : k <= j]

\* every examined field of the line is a string, null or absent
StringFields(l) ==
    \A v \in {l.tool, l.name, l.tool_name, l.command, l.file_path, l.filePath,
              l.path, l.description} : v.kind \in {"string", "absent", "null"}

\* C20: detectStepFromOutput returns the label of the first rule, in the order
\* read, commit, staging, linting, testing, writing tests, implementing, that
\* matches the line, and null when none matches or the line is no JSON object;
\* the same line always yields the same label.
C20_FirstMatchingRule ==
    line.kind = "line" =>
        /\ Cardinality(detected) <= 1
        /\ \A label \in detected : label = ExpectedLabel(line)

\* the part of C20 that the code keeps: lines whose examined fields are strings
C20_FirstMatchingRuleOnStrings ==
    (line.kind = "line" /\ StringFields(line)) =>
        /\ Cardinality(detected) <= 1
        /\ \A label \in detected : label = ExpectedLabel(line)

\* a read of a test file whose command names a linter is "Reading code"
C20_WitnessReadOfTestFile ==
    /\ line.kind = "line"
    /\ StringFields(line)
    /\ RuleMatches(line, 1) /\ RuleMatches(line, 4)
    /\ isTestFile(FirstText(<<line.file_path, line.filePath, line.path>>))
    /\ detected = {"Reading code"}

\* a line that matches the read rule and is classified as null
C20_WitnessReadLost ==
    /\ line.kind = "line"
    /\ IsJsonObject(line)
    /\ RuleMatches(line, 1)
    /\ detected = {NullLabel}

\* ---- state registry: persistence -----------------------------------------------
MaxRegOps == 3
AgentIds == 1..2

removeAgentFromState(ag, id) == [x \in (DOMAIN ag) \ {id} |-> ag[x]]

\* the optional properties of an agent record and the value that stands for
\* undefined
OptionalFields == {"tmuxSession", "worktreeDir", "branchName", "error"}
Unset(f) == IF f = "error" THEN FALSE ELSE 0

\* JSON.stringify leaves out the properties whose value is undefined
stringifyAgent(a) ==
    [f \in {g \in DOMAIN a : ~(g \in OptionalFields /\ a[g] = Unset(g))} |-> a[f]]

JSONstringify(ag, sm) ==
    [agents |-> [id \in DOMAIN ag |-> stringifyAgent(ag[id])], summary |-> sm]

\* faulty variant: saveState runs before the mutation is applied
SavedState_BeforeMutation(old, new) == old

\* the document saveState serialises: currentState after the mutation
SavedState(old, new) == new

\* writeFileSync either replaces the file, or throws before it touched the
\* file, or throws after it truncated the file; saveState ignores the error
SaveOutcomes == {"written", "untouched", "truncated"}

saveState(file, doc, outcome) ==
    CASE outcome = "written" ->
            [exists |-> TRUE, text |-> JSONstringify(doc.agents, doc.summary)]
      [] outcome = "untouched" -> file
      [] outcome = "truncated" -> [exists |-> TRUE, text |-> <<>>]

\* the patches the callers of updateState pass
AgentPatches ==
    {[task |-> 1, status |-> "pending", step |-> "Creating worktree"],
     [worktreeDir |-> 1, branchName |-> 1, step |-> "Preparing worktree"],
     [tmuxSession |-> 1, status |-> "running", step |-> "Executing (tmux)"],
     [status |-> "failed", step |-> "Failed", error |-> FALSE]}

SummaryPatches == {[total |-> 1], [inProgress |-> 1], [completed |-> 1]}

CurrentState == [agents |-> agents, summary |-> summary]

RegistryUnchanged ==
    UNCHANGED <<classVars, tmuxVars, streamVars, cfg, sourceVars, schedVars, agentVars,
                mergeVars>>

RegUpdateState ==
    /\ regOps < MaxRegOps
    /\ \E id \in AgentIds, updates \in AgentPatches, outcome \in SaveOutcomes :
          LET new == [agents |-> updateState(agents, id, updates),
                      summary |-> summary]
          IN /\ agents' = new.agents
             /\ stateFile' = saveState(stateFile, SavedState(CurrentState, new), outcome)
             /\ lastSave' = outcome
    /\ regOps' = regOps + 1
    /\ UNCHANGED summary
    /\ RegistryUnchanged

RegUpdateSummary ==
    /\ regOps < MaxRegOps
    /\ \E updates \in SummaryPatches, outcome \in SaveOutcomes :
          LET new == [agents |-> agents,
                      summary |-> updateSummary(summary, updates)]
          IN /\ summary' = new.summary
             /\ stateFile' = saveState(stateFile, SavedState(CurrentState, new), outcome)
             /\ lastSave' = outcome
    /\ regOps' = regOps + 1
    /\ UNCHANGED agents
    /\ RegistryUnchanged

RegRemoveAgent ==
    /\ regOps < MaxRegOps
    /\ \E id \in AgentIds, outcome \in SaveOutcomes :
          LET new == [agents |-> removeAgentFromState(agents, id),
                      summary |-> summary]
          IN /\ agents' = new.agents
             /\ stateFile' = saveState(stateFile, SavedState(CurrentState, new), outcome)
             /\ lastSave' = outcome
    /\ regOps' = regOps + 1
    /\ UNCHANGED summary
    /\ RegistryUnchanged

RegistryInit ==
    /\ cfg = FixedConfig
    /\ RunInit
    /\ ClassIdle
    /\ FileIdle
    /\ TmuxIdle
    /\ StreamIdle

RegistryNext == RegUpdateState \/ RegUpdateSummary \/ RegRemoveAgent

RegistrySpec == RegistryInit /\ [][RegistryNext]_vars

\* re-reading the state file: JSON.parse of its text; nothing when the file is
\* missing or its text is no JSON document
CanReRead(file) == file.exists /\ file.text # <<>>

\* a re-read document equals the in-memory one: the same agents, the same
\* summary, and every property of every agent equal, an undefined property
\* of the in-memory record being the same as a missing one
DocEqual(doc, mem) ==
    /\ doc.summary = mem.summary
    /\ DOMAIN doc.agents = DOMAIN mem.agents
    /\ \A id \in DOMAIN mem.agents :
          /\ DOMAIN doc.agents[id] \subseteq DOMAIN mem.agents[id]
          /\ \A f \in DOMAIN mem.agents[id] :
                IF f \in DOMAIN doc.agents[id]
                THEN doc.agents[id][f] = mem.agents[id][f]
                ELSE f \in OptionalFields /\ mem.agents[id][f] = Unset(f)

FileHoldsMemory == CanReRead(stateFile) /\ DocEqual(stateFile.text, CurrentState)

\* C18 as stated: after every registry mutation the state file holds a
\* document equal to the in-memory document, also when a write fails.
C18_FileEqualsMemory ==
    lastSave # "none" => FileHoldsMemory

\* C18 amended: after every registry mutation whose write succeeded the state
\* file holds a document equal to the in-memory document.
C18_FileEqualsMemoryAfterWrite ==
    lastSave = "written" => FileHoldsMemory

\* the last mutation was written: the file holds a record with an undefined
\* property left out and equals the in-memory document
C18_Witness ==
    /\ regOps = MaxRegOps
    /\ lastSave = "written"
    /\ FileHoldsMemory
    /\ \E id \in DOMAIN agents :
          /\ agents[id].status = "failed"
          /\ "error" \notin DOMAIN stateFile.text.agents[id]
          /\ "tmuxSession" \in DOMAIN stateFile.text.agents[id]

\* ---- agents in tmux sessions: execTmuxCommand --------------------------------
\* A session is named after its agent, so the agent number stands for the
\* session name and for the name of its exit file.  The output file and
\* onProgress are not part of this specification.
NumSess == 1
Sessions == 1..NumSess

TmuxConfig == [FixedConfig EXCEPT !.maxRetries = MaxRetriesBound]

NoSession == [st |-> "none", targetCode |-> -1, status |-> -1]
IdleDriver ==
    [pc |-> "idle", exitCode |-> -1, hasSession |-> FALSE, started |-> FALSE,
     attempt |-> 0]

\* an exit file of an earlier run may be left in the temporary directory
TmuxInit ==
    /\ cfg = TmuxConfig
    /\ RunInit
    /\ ClassIdle
    /\ FileIdle
    /\ StreamIdle
    /\ rt = [a \in Sessions |-> "new"]
    /\ drv = [a \in Sessions |-> IdleDriver]
    /\ sess = [a \in Sessions |-> NoSession]
    /\ exitFile \in [Sessions -> {"none", "1"}]
    /\ proc = [st |-> "running", sigs |-> {}, exitStatus |-> -1]
    /\ killLog = {}

\* tmux has-session: the session exists while its shell command runs
Alive(s) == s.st \in {"target", "status", "opened", "written", "blocked"}

ProcLive == proc.st # "exited"

TmuxUnchanged ==
    UNCHANGED <<classVars, fileVars, streamVars, cfg, sourceVars, schedVars, agentVars, summary,
                mergeVars>>

\* runAgentInWorktree: the agent is registered as pending
TmuxAgentRegister(a) ==
    /\ ProcLive
    /\ rt[a] = "new"
    /\ agents' = updateState(agents, a,
                    [task |-> a, status |-> "pending", step |-> "Creating worktree"])
    /\ rt' = [rt EXCEPT ![a] = "create"]
    /\ UNCHANGED <<drv, sess, exitFile, proc, killLog>>
    /\ TmuxUnchanged

\* runAgentInWorktree up to the call of engine.execute: the worktree is
\* created and prepared, and the session name is recorded with status running
TmuxAgentPrepare(a) ==
    /\ ProcLive
    /\ rt[a] = "create"
    /\ LET prepared == updateState(agents, a,
                          [worktreeDir |-> a, branchName |-> a,
                           step |-> "Preparing worktree"])
       IN \E ok \in BOOLEAN :
            IF ok
            THEN /\ agents' = updateState(prepared, a, RunningUpdate(cfg, [num |-> a]))
                 /\ rt' = [rt EXCEPT ![a] = "execute"]
            ELSE /\ agents' = updateState(agents, a,
                                [status |-> "failed", step |-> "Error", error |-> TRUE])
                 /\ rt' = [rt EXCEPT ![a] = "returned"]
    /\ UNCHANGED <<drv, sess, exitFile, proc, killLog>>
    /\ TmuxUnchanged

\* execTmuxCommand up to the polling loop: the old exit file is removed and
\* tmux new-session is spawned; it creates no session when one of that name
\* exists or when tmux fails, and its exit status is not looked at
DrvStart(a) ==
    /\ ProcLive
    /\ rt[a] = "execute"
    /\ drv[a].pc = "idle"
    /\ exitFile' = [exitFile EXCEPT ![a] = "none"]
    /\ \E ok \in BOOLEAN :
          LET created == ok /\ ~Alive(sess[a])
          IN /\ sess' = IF created
                        THEN [sess EXCEPT ![a] = [NoSession EXCEPT !.st = "target"]]
                        ELSE sess
             /\ drv' = [drv EXCEPT ![a] =
                          [@ EXCEPT !.pc = "poll", !.exitCode = -1,
                                    !.hasSession = FALSE, !.started = created]]
    /\ UNCHANGED <<rt, agents, proc, killLog>>
    /\ TmuxUnchanged

\* ---- the shell command of the session -------------------------------------------
\* "target 2>&1 | tee out; STATUS=$?": the status of a pipeline is the status
\* of its last command, which is tee
PipelineStatus(targetCode, teeCode) == teeCode

\* faulty variant: the exit file is written only inside the if of the banner
ScriptAfterStatus_OnlyOnFailure(status) == IF status # 0 THEN "opened" ELSE "ended"

\* "echo $STATUS > exit" follows whatever the status is
ScriptAfterStatus(status) == "opened"

\* "if [ $STATUS -ne 0 ]; then ...; tail -f /dev/null; fi"
ScriptAfterWrite(status) == IF status # 0 THEN "blocked" ELSE "ended"

ExitText(status) == IF status = 0 THEN "0" ELSE "1"

parseInt(text) == IF text = "0" THEN 0 ELSE 1

SessionUnchanged == UNCHANGED <<rt, drv, agents, proc, killLog>>

\* the target command and tee exit
ScriptPipelineEnds(a) ==
    /\ sess[a].st = "target"
    /\ \E targetCode \in {0, 1}, teeCode \in {0, 1} :
          sess' = [sess EXCEPT ![a] =
                      [st |-> "status", targetCode |-> targetCode,
                       status |-> PipelineStatus(targetCode, teeCode)]]
    /\ UNCHANGED exitFile
    /\ SessionUnchanged
    /\ TmuxUnchanged

\* the redirection creates the exit file empty
ScriptOpenExit(a) ==
    /\ sess[a].st = "status"
    /\ LET next == ScriptAfterStatus(sess[a].status)
       IN /\ sess' = [sess EXCEPT ![a].st = next]
          /\ exitFile' = IF next = "opened"
                         THEN [exitFile EXCEPT ![a] = "empty"]
                         ELSE exitFile
    /\ SessionUnchanged
    /\ TmuxUnchanged

\* echo writes the status into the exit file
ScriptWriteExit(a) ==
    /\ sess[a].st = "opened"
    /\ exitFile' = [exitFile EXCEPT ![a] = ExitText(sess[a].status)]
    /\ sess' = [sess EXCEPT ![a].st = "written"]
    /\ SessionUnchanged
    /\ TmuxUnchanged

\* the session blocks on a non-zero status and ends otherwise
ScriptBranch(a) ==
    /\ sess[a].st = "written"
    /\ sess' = [sess EXCEPT ![a].st = ScriptAfterWrite(sess[a].status)]
    /\ UNCHANGED exitFile
    /\ SessionUnchanged
    /\ TmuxUnchanged

\* somebody outside the orchestrator runs tmux kill-session
ExternalKill(a) ==
    /\ Alive(sess[a])
    /\ sess' = [sess EXCEPT ![a].st = "killed"]
    /\ UNCHANGED exitFile
    /\ SessionUnchanged
    /\ TmuxUnchanged

\* ---- the polling loop of execTmuxCommand ---------------------------------------
\* a tick up to the spawn of tmux has-session: the exit file is read
DrvPoll(a) ==
    /\ ProcLive
    /\ drv[a].pc = "poll"
    /\ drv' = [drv EXCEPT ![a] =
                  IF exitFile[a] \notin {"none", "empty"}
                  THEN [@ EXCEPT !.pc = "done", !.exitCode = parseInt(exitFile[a])]
                  ELSE [@ EXCEPT !.pc = "probe"]]
    /\ UNCHANGED <<rt, agents, sess, exitFile, proc, killLog>>
    /\ TmuxUnchanged

\* tmux has-session answers
DrvProbe(a) ==
    /\ ProcLive
    /\ drv[a].pc = "probe"
    /\ drv' = [drv EXCEPT ![a] = [@ EXCEPT !.pc = "check", !.hasSession = Alive(sess[a])]]
    /\ UNCHANGED <<rt, agents, sess, exitFile, proc, killLog>>
    /\ TmuxUnchanged

\* faulty variant: the answer of has-session alone decides
SessionVanished_NoRecheck(hasSession, file) == ~hasSession

\* "!hasSession && !fs.existsSync(exitFile)": the exit file is looked at again
\* after has-session has answered
SessionVanished(hasSession, file) == ~hasSession /\ file = "none"

\* the rest of the tick: the session is gone and there is no exit file, or sleep
DrvCheck(a) ==
    /\ ProcLive
    /\ drv[a].pc = "check"
    /\ drv' = [drv EXCEPT ![a] =
                  IF SessionVanished(drv[a].hasSession, exitFile[a])
                  THEN [@ EXCEPT !.pc = "done", !.exitCode = 1]
                  ELSE [@ EXCEPT !.pc = "poll"]]
    /\ UNCHANGED <<rt, agents, sess, exitFile, proc, killLog>>
    /\ TmuxUnchanged

\* what the engine makes of the exit code: a non-zero code is a failure
EngineSuccessOutcomes(exitCode) == IF exitCode = 0 THEN {TRUE, FALSE} ELSE {FALSE}

\* engine.execute returns; withRetry retries a retryable failure, otherwise
\* runAgentInWorktree records the outcome
TmuxAgentFinish(a) ==
    /\ ProcLive
    /\ rt[a] = "execute"
    /\ drv[a].pc = "done"
    /\ \E success \in EngineSuccessOutcomes(drv[a].exitCode), retryable \in BOOLEAN :
          IF success
          THEN /\ agents' = updateState(agents, a,
                               [status |-> "completed", step |-> "Finished"])
               /\ rt' = [rt EXCEPT ![a] = "returned"]
               /\ UNCHANGED drv
          ELSE IF retryable /\ RetryAllowed(drv[a].attempt, cfg.maxRetries)
          THEN /\ drv' = [drv EXCEPT ![a] =
                             [IdleDriver EXCEPT !.attempt = drv[a].attempt + 1]]
               /\ UNCHANGED <<agents, rt>>
          ELSE /\ agents' = updateState(agents, a,
                               [status |-> "failed",
                                step |-> IF retryable THEN "Error" ELSE "Failed",
                                error |-> TRUE])
               /\ rt' = [rt EXCEPT ![a] = "returned"]
               /\ UNCHANGED drv
    /\ UNCHANGED <<sess, exitFile, proc, killLog>>
    /\ TmuxUnchanged

\* ---- signal handlers of main and cleanupTmuxSessions ---------------------------
Signals == {"SIGINT", "SIGTERM"}

\* faulty variant: a kill is issued for every agent that has a session name
KillTargets_EverySession(ag) ==
    {ag[a].tmuxSession : a \in {x \in DOMAIN ag : ag[x].tmuxSession # 0}}

\* the sessions cleanupTmuxSessions issues tmux kill-session for
KillTargets(ag) ==
    {ag[a].tmuxSession :
        a \in {x \in DOMAIN ag :
                  /\ ag[x].tmuxSession # 0
                  /\ ag[x].status \in {"running", "pending"}}}

\* tmux kill-session ends a session that exists and only reports an error for
\* one that does not
killSession(ss, names) ==
    [n \in DOMAIN ss |->
        IF n \in names /\ Alive(ss[n]) THEN [ss[n] EXCEPT !.st = "killed"] ELSE ss[n]]

cleanupTmuxSessions(ag, ss) == killSession(ss, KillTargets(ag))

\* the process receives a signal: the handler starts and awaits the import
SignalArrives ==
    /\ ProcLive
    /\ \E sig \in Signals \ proc.sigs :
          proc' = [proc EXCEPT !.st = "handling", !.sigs = @ \cup {sig}]
    /\ UNCHANGED <<rt, drv, agents, sess, exitFile, killLog>>
    /\ TmuxUnchanged

\* the handler continues: cleanupTmuxSessions, then process.exit(0)
HandlerCleanup ==
    /\ proc.st = "handling"
    /\ sess' = cleanupTmuxSessions(agents, sess)
    /\ killLog' = killLog \cup KillTargets(agents)
    /\ proc' = [proc EXCEPT !.st = "exited", !.exitStatus = 0]
    /\ UNCHANGED <<rt, drv, agents, exitFile>>
    /\ TmuxUnchanged

TmuxNext ==
    \/ \E a \in Sessions : TmuxAgentRegister(a)
    \/ \E a \in Sessions : TmuxAgentPrepare(a)
    \/ \E a \in Sessions : DrvStart(a)
    \/ \E a \in Sessions : ScriptPipelineEnds(a)
    \/ \E a \in Sessions : ScriptOpenExit(a)
    \/ \E a \in Sessions : ScriptWriteExit(a)
    \/ \E a \in Sessions : ScriptBranch(a)
    \/ \E a \in Sessions : ExternalKill(a)
    \/ \E a \in Sessions : DrvPoll(a)
    \/ \E a \in Sessions : DrvProbe(a)
    \/ \E a \in Sessions : DrvCheck(a)
    \/ \E a \in Sessions : TmuxAgentFinish(a)
    \/ SignalArrives
    \/ HandlerCleanup

TmuxSpec == TmuxInit /\ [][TmuxNext]_vars

\* the polling loop sleeps one second and ticks again, the calls awaited by
\* the driver and by withRetry return, and the shell of a session goes on to
\* its next command, and a signal handler that has started goes on to its
\* cleanup; the target command itself may run for ever, and nobody has to
\* kill a session or signal the process
FairTmuxSpec ==
    /\ TmuxSpec
    /\ WF_vars(HandlerCleanup)
    /\ \A a \in Sessions :
          /\ WF_vars(DrvStart(a))
          /\ WF_vars(DrvPoll(a))
          /\ WF_vars(DrvProbe(a))
          /\ WF_vars(DrvCheck(a))
          /\ WF_vars(TmuxAgentFinish(a))
          /\ WF_vars(ScriptOpenExit(a))
          /\ WF_vars(ScriptWriteExit(a))
          /\ WF_vars(ScriptBranch(a))

\* ---- the output file of a session and onProgress --------------------------------
\* StreamSpec: one session writes its output file through tee and then its
\* exit file, while the polling loop of execTmuxCommand reads the new bytes
\* of the output file on every tick.  readStream, the reader behind
\* execCommandStreaming, is the reference the lines are compared with.
MaxOut == 3

NL == "\n"

OutChars == {"a", " ", NL}

\* String.prototype.split("\n")
RECURSIVE split(_)
split(str) ==
    IF \A i \in 1..Len(str) : str[i] # NL
    THEN <<str>>
    ELSE LET i == CHOOSE k \in 1..Len(str) :
                      str[k] = NL /\ \A j \in 1..(k - 1) : str[j] # NL
         IN <<SubSeq(str, 1, i - 1)>> \o split(SubSeq(str, i + 1, Len(str)))

\* "if (line.trim()) onLine(line)" over the pieces of a split
NonBlankLines(lines) == SelectSeq(lines, LAMBDA l : trim(l) # <<>>)

\* readStream: the text after the last newline of a chunk is kept in the
\* buffer for the next chunk, and what is left at the end is one more line
RECURSIVE readStreamFrom(_, _, _)
readStreamFrom(chunks, buffer, out) ==
    IF chunks = <<>>
    THEN IF trim(buffer) # <<>> THEN Append(out, buffer) ELSE out
    ELSE LET lines == split(buffer \o Head(chunks))
         IN readStreamFrom(Tail(chunks), lines[Len(lines)],
                           out \o NonBlankLines(SubSeq(lines, 1, Len(lines) - 1)))

readStream(chunks) == readStreamFrom(chunks, <<>>, <<>>)

\* a polling tick: every piece of the split of the new bytes counts as a line
progressLines(newContent) == NonBlankLines(split(newContent))

StreamInit ==
    /\ cfg = FixedConfig
    /\ RunInit
    /\ ClassIdle
    /\ FileIdle
    /\ TmuxIdle
    /\ outFile = <<>>
    /\ outExit = FALSE
    /\ lastReadOffset = 0
    /\ delivered = <<>>
    /\ strPc = "read"

StreamUnchanged ==
    UNCHANGED <<classVars, fileVars, tmuxVars, cfg, sourceVars, schedVars, agentVars,
                regVars, mergeVars>>

\* tee appends output of the target command to the output file
TeeWrites ==
    /\ ~outExit
    /\ Len(outFile) < MaxOut
    /\ \E c \in OutChars : outFile' = Append(outFile, c)
    /\ UNCHANGED <<outExit, lastReadOffset, delivered, strPc>>
    /\ StreamUnchanged

\* the pipeline has ended and the script writes the exit file
ScriptWritesExit ==
    /\ ~outExit
    /\ outExit' = TRUE
    /\ UNCHANGED <<outFile, lastReadOffset, delivered, strPc>>
    /\ StreamUnchanged

\* the first half of a tick: the bytes after lastReadOffset go to onProgress
TickReadOutput ==
    /\ strPc = "read"
    /\ IF Len(outFile) > lastReadOffset
       THEN /\ delivered' = delivered \o
                   progressLines(SubSeq(outFile, lastReadOffset + 1, Len(outFile)))
            /\ lastReadOffset' = Len(outFile)
       ELSE UNCHANGED <<delivered, lastReadOffset>>
    /\ strPc' = "exit"
    /\ UNCHANGED <<outFile, outExit>>
    /\ StreamUnchanged

\* the second half: an exit file with a status ends the loop, otherwise the
\* session is still there and the loop sleeps
TickCheckExit ==
    /\ strPc = "exit"
    /\ strPc' = IF outExit THEN "returned" ELSE "read"
    /\ UNCHANGED <<outFile, outExit, lastReadOffset, delivered>>
    /\ StreamUnchanged

StreamNext == TeeWrites \/ ScriptWritesExit \/ TickReadOutput \/ TickCheckExit

StreamSpec == StreamInit /\ [][StreamNext]_vars

TmuxTypeOK ==
    /\ \A a \in Sessions :
          /\ rt[a] \in {"new", "create", "execute", "returned"}
          /\ drv[a].pc \in {"idle", "poll", "probe", "check", "done"}
          /\ exitFile[a] \in {"none", "empty", "0", "1"}
    /\ killLog \subseteq Sessions

ActiveWithSession(a) ==
    /\ a \in DOMAIN agents
    /\ agents[a].status \in {"pending", "running"}
    /\ agents[a].tmuxSession # 0

\* C13: a session whose target command exited with a non-zero status stays
\* (blocked) until it is killed from outside; only a session whose target
\* command exited with zero ends by itself.
C13_NonZeroTargetBlocks ==
    \A a \in Sessions : sess[a].st = "ended" => sess[a].targetCode = 0

\* the part of C13 that the code keeps: the status of the pipeline decides
C13_StatusDecides ==
    \A a \in Sessions :
        /\ sess[a].st = "ended" => sess[a].status = 0
        /\ sess[a].st = "blocked" => sess[a].status # 0 /\ sess[a].status # -1

\* C14: execTmuxCommand returns the exit status of the target command, which
\* the session wrote to the exit file, and 1 only when the session is gone
\* and no exit file was written.
C14_ExitCodeIsTargetStatus ==
    \A a \in Sessions :
        drv[a].pc = "done" =>
            IF exitFile[a] \in {"0", "1"}
            THEN drv[a].exitCode = sess[a].targetCode
            ELSE drv[a].exitCode = 1 /\ ~Alive(sess[a])

\* the part of C14 that the code keeps: the content of the exit file
C14_ExitCodeIsExitFile ==
    \A a \in Sessions :
        drv[a].pc = "done" =>
            IF exitFile[a] \in {"0", "1"}
            THEN drv[a].exitCode = sess[a].status
            ELSE drv[a].exitCode = 1 /\ ~Alive(sess[a])

\* C15 as stated: while no signal has arrived, the session named in the
\* record of a pending or running agent exists.
C15_SessionExistsWhileActive ==
    proc.sigs = {} =>
        \A a \in Sessions : ActiveWithSession(a) => Alive(sess[agents[a].tmuxSession])

\* C15 amended: while no signal has arrived, the session named in the record
\* of a pending or running agent, once the current execTmuxCommand call has
\* started it and unless it was killed from outside, exists or has written
\* its exit file.
C15_StartedSessionExistsOrWroteExit ==
    proc.sigs = {} =>
        \A a \in Sessions :
            (/\ ActiveWithSession(a)
             /\ drv[a].started
             /\ sess[agents[a].tmuxSession].st # "killed")
            => \/ Alive(sess[agents[a].tmuxSession])
               \/ exitFile[agents[a].tmuxSession] \in {"0", "1"}

\* a running agent whose session has ended by itself, the driver still polling
C15_Witness ==
    /\ proc.sigs = {}
    /\ \E a \in Sessions :
          /\ ActiveWithSession(a)
          /\ drv[a].started
          /\ drv[a].pc = "probe"
          /\ sess[a].st = "ended"
          /\ exitFile[a] = "0"

\* C17: the handler of SIGINT and SIGTERM issues a kill for exactly the
\* sessions of the pending and running agents, leaves the sessions of
\* completed and failed agents and the registry as they are, would change
\* nothing when run again, and exits with status 0.
C17_CleanupKillsActiveOnly ==
    [][(proc.st = "handling" /\ proc'.st = "exited") =>
          /\ killLog' = {a \in Sessions : ActiveWithSession(a)}
          /\ \A a \in Sessions :
                (a \in DOMAIN agents /\ agents[a].status \in TerminalStatus)
                    => a \notin killLog' /\ sess'[a] = sess[a]
          /\ \A a \in killLog' : ~Alive(sess'[a])
          /\ agents' = agents /\ summary' = summary
          /\ cleanupTmuxSessions(agents', sess') = sess'
          /\ proc'.exitStatus = 0
          /\ proc.sigs # {}]_vars

\* SIGTERM alone: the session of a running agent was killed
C17_Witness ==
    /\ proc.st = "exited"
    /\ proc.sigs = {"SIGTERM"}
    /\ proc.exitStatus = 0
    /\ \E a \in killLog : agents[a].status = "running" /\ sess[a].st = "killed"

\* SIGINT, then SIGTERM before the handler went on: the blocked session of a
\* failed agent is still there
C17_WitnessPreserved ==
    /\ proc.st = "exited"
    /\ proc.sigs = Signals
    /\ killLog = {}
    /\ \E a \in Sessions :
          a \in DOMAIN agents /\ agents[a].status = "failed" /\ sess[a].st = "blocked"

\* a kill was issued for a session that was gone already
C17_WitnessKillOfGoneSession ==
    /\ proc.st = "exited"
    /\ \E a \in killLog : sess[a].st = "ended"

\* C22: at the start of every merge attempt no earlier merge is in progress:
\* a merge that reported conflicts was committed or aborted before the next
\* branch is merged.
C22_NoMergeOpenAtMergeStart ==
    [][Len(mergeLog') > Len(mergeLog) => ~mergeOpen]_vars

\* the part of C22 that the code keeps: conflicts that came with a file list
C22_FailedResolutionAborted ==
    (mergeLog # <<>> /\ mergeLog[Len(mergeLog)].outcome = "unresolved") => ~mergeOpen

AllowedStatusMoves ==
    {<<"pending", "running">>, <<"running", "completed">>,
     <<"running", "failed">>, <<"pending", "failed">>}

\* an agent that has returned has a terminal record, completed exactly when
\* its result reports success; a return without result carries the error
C23_ReturnedSlot ==
    \A i \in DOMAIN slots :
        slots[i].pc = "returned" =>
            /\ slots[i].num \in DOMAIN agents
            /\ agents[slots[i].num].status \in TerminalStatus
            /\ (agents[slots[i].num].status = "completed" <=> slots[i].result = "success")
            /\ (slots[i].result = "none" => slots[i].error)

\* a record is created pending and its status moves only along
\* pending -> running -> completed/failed or pending -> failed
C23_StatusMoves ==
    [][\A a \in DOMAIN agents' :
          IF a \in DOMAIN agents
          THEN \/ agents'[a].status = agents[a].status
               \/ <<agents[a].status, agents'[a].status>> \in AllowedStatusMoves
          ELSE agents'[a].status = "pending"]_vars

\* C23: on every path runAgentInWorktree returns a result with the record
\* set to completed or failed, completed exactly when the result reports
\* success, and the status only moves pending -> running -> completed/failed
\* or pending -> failed.
C23_AgentAlwaysSettles == []C23_ReturnedSlot /\ C23_StatusMoves

\* one agent of the batch returned a successful result, another returned
\* without result after an exception that followed the creation of its worktree
C23_Witness ==
    /\ pc = "await"
    /\ \E i \in DOMAIN slots :
          /\ slots[i].pc = "returned" /\ slots[i].result = "success"
          /\ agents[slots[i].num].status = "completed"
    /\ \E i \in DOMAIN slots :
          /\ slots[i].pc = "returned" /\ slots[i].result = "none" /\ slots[i].error
          /\ slots[i].worktreeDir # 0
          /\ agents[slots[i].num].status = "failed"

\* C26: runParallel leaves the batch loop after finitely many iterations, for
\* every combination of dryRun, maxIterations and maxParallel.
C26_LoopExits == <>(pc \in PostLoop)

\* the part of C26 that the code keeps: every run but the dry run without
\* iteration limit
C26_LoopExitsUnlessUnboundedDryRun ==
    (cfg.dryRun /\ cfg.maxIterations = 0) \/ <>(pc \in PostLoop)

\* an iteration of a dry run changes nothing the selection depends on and
\* selects the same batch again
C26_DryRunMakesNoProgress ==
    [][(pc' = "skip" \/ pc = "skip")
          => (cfg.dryRun /\ remaining' = remaining /\ failedTaskIds' = failedTaskIds
              /\ (iteration > 0 => batch' = batch))]_vars

\* C24: a session that wrote its exit file is never reported as vanished: when
\* the driver has returned and the exit file holds a status, the returned code
\* is the one read from the file, and the step that reports a vanished session
\* of this invocation is taken only for a session killed before it wrote
C24_ReturnedCodeIsFromFile ==
    \A a \in Sessions :
        (drv[a].pc = "done" /\ exitFile[a] \in {"0", "1"}) =>
            drv[a].exitCode = parseInt(exitFile[a])

C24_VanishedStep ==
    [][\A a \in Sessions :
          (drv[a].pc = "check" /\ drv'[a].pc = "done" /\ drv[a].started) =>
              (sess[a].st = "killed" /\ exitFile[a] = "none" /\ drv'[a].exitCode = 1)]_vars

C24_WrittenExitFileWins == []C24_ReturnedCodeIsFromFile /\ C24_VanishedStep

\* the session wrote its exit file and ended after the tick found no exit
\* file and before has-session answered
C24_Witness ==
    \E a \in Sessions :
        /\ drv[a].pc = "check"
        /\ drv[a].started
        /\ ~drv[a].hasSession
        /\ sess[a].st = "ended"
        /\ exitFile[a] \in {"0", "1"}

\* the same invocation has then returned the code of the file
C24_WitnessReturned ==
    \E a \in Sessions :
        /\ drv[a].pc = "done"
        /\ drv[a].started
        /\ ~drv[a].hasSession
        /\ sess[a].st = "ended"
        /\ drv[a].exitCode = 0
        /\ exitFile[a] = "0"

\* C25: the polling loop ends whenever the target command has ended or the
\* session has been killed, on the first attempt and on every retried one
Polling(a) == drv[a].pc \in {"poll", "probe", "check"}

TargetOver(a) == sess[a].st # "target"

C25_PollingTerminates ==
    \A a \in Sessions :
        (Polling(a) /\ TargetOver(a)) ~> (drv[a].pc = "done" \/ ~ProcLive)

\* the same as a condition on single states: the driver is never in a loop
\* whose session has stopped for good while neither exit of the tick can be
\* taken (an exit file with a status, or no session together with no file)
C25_NoClosedLoop ==
    \A a \in Sessions :
        ~ /\ Polling(a)
          /\ ProcLive
          /\ sess[a].st \in {"blocked", "killed"}
          /\ exitFile[a] \in {"none", "empty"}
          /\ ~(~Alive(sess[a]) /\ exitFile[a] = "none")

\* the retried attempt alone: the target command of the agent has ended with
\* a non-zero status and its session is still there
C25_RetriedAttemptTerminates ==
    \A a \in Sessions :
        (Polling(a) /\ drv[a].attempt > 0 /\ sess[a].st = "blocked")
            ~> (drv[a].pc = "done" \/ ~ProcLive)

\* what does hold: once the exit file holds a status the loop ends
C25_WrittenFileEndsLoop ==
    \A a \in Sessions :
        (Polling(a) /\ exitFile[a] \in {"0", "1"}) ~> (drv[a].pc = "done" \/ ~ProcLive)

\* a retried attempt polls while the session of the earlier attempt is blocked
C25_RetryBehindBlockedSession ==
    \E a \in Sessions :
        /\ Polling(a)
        /\ drv[a].attempt > 0
        /\ ~drv[a].started
        /\ sess[a].st = "blocked"
        /\ exitFile[a] = "none"

\* C21: when the driver returns, the lines passed to onProgress are the
\* non-blank lines of the output file, each whole and once, in file order, as
\* readStream delivers them for the same bytes
C21_ProgressLinesAreFileLines ==
    strPc = "returned" => delivered = readStream(<<outFile>>)

\* no line is cut in two by a tick: what has been delivered so far is what
\* readStream has delivered for the bytes read so far, together with its buffer
C21_NoLineCutByTick ==
    LET read == SubSeq(outFile, 1, lastReadOffset)
    IN \/ delivered = readStream(<<read>>)
       \/ \E n \in 0..Len(read) :
             /\ \A i \in (n + 1)..Len(read) : read[i] # NL
             /\ delivered = readStream(<<SubSeq(read, 1, n)>>)

\* no output written before the exit file is skipped
C21_NoOutputSkipped ==
    strPc = "returned" => lastReadOffset = Len(outFile)

\* what does hold: the pieces delivered are non-blank, hold no newline, and
\* joined in order they are the non-blank lines of the bytes read, joined
RECURSIVE Join(_)
Join(lines) == IF lines = <<>> THEN <<>> ELSE Head(lines) \o Join(Tail(lines))

C21_PiecesInFileOrder ==
    /\ \A i \in 1..Len(delivered) :
          /\ trim(delivered[i]) # <<>>
          /\ \A k \in 1..Len(delivered[i]) : delivered[i][k] # NL
    /\ lastReadOffset <= Len(outFile)
    /\ SelectSeq(Join(delivered), LAMBDA c : c # " ") =
          SelectSeq(SubSeq(outFile, 1, lastReadOffset), LAMBDA c : c \notin {" ", NL})

\* readStream does not depend on where the chunks end
C21_ReadStreamChunkFree ==
    readStream(<<SubSeq(outFile, 1, lastReadOffset),
                 SubSeq(outFile, lastReadOffset + 1, Len(outFile))>>)
        = readStream(<<outFile>>)

====
